---- MODULE Spec2Model ----
(***************************************************************************)
(* A model of the CEC control layer of laher/cec: the symbol tables, the   *)
(* name/address resolvers, Open, Key, List and the dispatch of the         *)
(* driver's key-pressed and command-received callbacks into the            *)
(* Connection's channels.                                                  *)
(*                                                                         *)
(* Go strings that the code inspects character by character are modelled   *)
(* as sequences of one-character strings (<<"T","V">> is "TV"); strings    *)
(* that are only stored or compared whole stay TLA+ strings.               *)
(***************************************************************************)
EXTENDS Integers, Sequences, FiniteSets, TLC

VARIABLES
  conn,       \* the *Connection the application holds: "nil" or "open"
  openCall,   \* the last call of Open: driver calls made, what was returned
  keyCall,    \* the last call of Connection.Key: inputs, driver calls, outcome
  bus,        \* what the devices on the bus answer to the per-address queries
  listCall,   \* the last call of Connection.List: bitmap, queries, result
  KeyPresses, \* Connection.KeyPresses (chan int), nil until registered
  Commands,   \* Connection.Commands (chan *Command), nil until registered
  cb,         \* the driver's callback context: idle, or inside a channel send
  cbRet,      \* the value the last completed callback returned to the driver
  arrived,    \* history: the callbacks the driver made, in order
  sentKey,    \* history: the values sent on KeyPresses, in order
  sentCmd,    \* history: the values sent on Commands, in order
  argAddr,    \* resolver input: a logical address
  argName,    \* resolver input: a name
  nameFrom,   \* where argName comes from: "input", "pending", "lookup", "panic"
  calls       \* the resolver calls made on argName, with their results

vars == <<conn, openCall, keyCall, bus, listCall, KeyPresses, Commands, cb,
          cbRet, arrived, sentKey, sentCmd, argAddr, argName, nameFrom, calls>>

connVars == <<conn, openCall, keyCall>>
listVars == <<bus, listCall>>
dispatchVars == <<KeyPresses, Commands, cb, cbRet, arrived, sentKey, sentCmd>>
nameVars == <<argAddr, argName, nameFrom, calls>>

----------------------------------------------------------------------------
(* Bounds of the model.                                                    *)

MaxCalls == 2     \* resolver calls made on one input
MaxLen == 3       \* length of the exhaustively enumerated input names
MaxSepPos == 2    \* positions at which a separator is inserted in a name
MaxActive == 2    \* devices the active-device bitmap marks active
MaxCap == 1       \* capacity of a registered channel
MaxEvents == 3    \* callbacks the driver makes

----------------------------------------------------------------------------
(* Symbol tables (cec.go, lines 32-143).  keyList is a Go map; its entries *)
(* are listed in the order of the source literal.                          *)

logicalNames ==
  << <<"T","V">>,
     <<"R","e","c","o","r","d","i","n","g">>,
     <<"R","e","c","o","r","d","i","n","g","2">>,
     <<"T","u","n","e","r">>,
     <<"P","l","a","y","b","a","c","k">>,
     <<"A","u","d","i","o">>,
     <<"T","u","n","e","r","2">>,
     <<"T","u","n","e","r","3">>,
     <<"P","l","a","y","b","a","c","k","2">>,
     <<"R","e","c","o","r","d","i","n","g","3">>,
     <<"T","u","n","e","r","4">>,
     <<"P","l","a","y","b","a","c","k","3">>,
     <<"R","e","s","e","r","v","e","d">>,
     <<"R","e","s","e","r","v","e","d","2">>,
     <<"F","r","e","e">>,
     <<"B","r","o","a","d","c","a","s","t">> >>

keyList ==
  << [code |-> 0, name |-> <<"S","e","l","e","c","t">>],
     [code |-> 1, name |-> <<"U","p">>],
     [code |-> 2, name |-> <<"D","o","w","n">>],
     [code |-> 3, name |-> <<"L","e","f","t">>],
     [code |-> 4, name |-> <<"R","i","g","h","t">>],
     [code |-> 5, name |-> <<"R","i","g","h","t","U","p">>],
     [code |-> 6, name |-> <<"R","i","g","h","t","D","o","w","n">>],
     [code |-> 7, name |-> <<"L","e","f","t","U","p">>],
     [code |-> 8, name |-> <<"L","e","f","t","D","o","w","n">>],
     [code |-> 9, name |-> <<"R","o","o","t","M","e","n","u">>],
     [code |-> 10, name |-> <<"S","e","t","u","p","M","e","n","u">>],
     [code |-> 11, name |-> <<"C","o","n","t","e","n","t","s","M","e","n","u">>],
     [code |-> 12, name |-> <<"F","a","v","o","r","i","t","e","M","e","n","u">>],
     [code |-> 13, name |-> <<"E","x","i","t">>],
     [code |-> 32, name |-> <<"0">>],
     [code |-> 33, name |-> <<"1">>],
     [code |-> 34, name |-> <<"2">>],
     [code |-> 35, name |-> <<"3">>],
     [code |-> 36, name |-> <<"4">>],
     [code |-> 37, name |-> <<"5">>],
     [code |-> 38, name |-> <<"6">>],
     [code |-> 39, name |-> <<"7">>],
     [code |-> 40, name |-> <<"8">>],
     [code |-> 41, name |-> <<"9">>],
     [code |-> 42, name |-> <<"D","o","t">>],
     [code |-> 43, name |-> <<"E","n","t","e","r">>],
     [code |-> 44, name |-> <<"C","l","e","a","r">>],
     [code |-> 47, name |-> <<"N","e","x","t","F","a","v","o","r","i","t","e">>],
     [code |-> 48, name |-> <<"C","h","a","n","n","e","l","U","p">>],
     [code |-> 49, name |-> <<"C","h","a","n","n","e","l","D","o","w","n">>],
     [code |-> 50, name |-> <<"P","r","e","v","i","o","u","s","C","h","a","n","n","e","l">>],
     [code |-> 51, name |-> <<"S","o","u","n","d","S","e","l","e","c","t">>],
     [code |-> 52, name |-> <<"I","n","p","u","t","S","e","l","e","c","t">>],
     [code |-> 53, name |-> <<"D","i","s","p","l","a","y","I","n","f","o","r","m","a","t","i","o","n">>],
     [code |-> 54, name |-> <<"H","e","l","p">>],
     [code |-> 55, name |-> <<"P","a","g","e","U","p">>],
     [code |-> 56, name |-> <<"P","a","g","e","D","o","w","n">>],
     [code |-> 64, name |-> <<"P","o","w","e","r">>],
     [code |-> 65, name |-> <<"V","o","l","u","m","e","U","p">>],
     [code |-> 66, name |-> <<"V","o","l","u","m","e","D","o","w","n">>],
     [code |-> 67, name |-> <<"M","u","t","e">>],
     [code |-> 68, name |-> <<"P","l","a","y">>],
     [code |-> 69, name |-> <<"S","t","o","p">>],
     [code |-> 70, name |-> <<"P","a","u","s","e">>],
     [code |-> 71, name |-> <<"R","e","c","o","r","d">>],
     [code |-> 72, name |-> <<"R","e","w","i","n","d">>],
     [code |-> 73, name |-> <<"F","a","s","t","F","o","r","w","a","r","d">>],
     [code |-> 74, name |-> <<"E","j","e","c","t">>],
     [code |-> 75, name |-> <<"F","o","r","w","a","r","d">>],
     [code |-> 76, name |-> <<"B","a","c","k","w","a","r","d">>],
     [code |-> 77, name |-> <<"S","t","o","p","R","e","c","o","r","d">>],
     [code |-> 78, name |-> <<"P","a","u","s","e","R","e","c","o","r","d">>],
     [code |-> 80, name |-> <<"A","n","g","l","e">>],
     [code |-> 81, name |-> <<"S","u","b","P","i","c","t","u","r","e">>],
     [code |-> 82, name |-> <<"V","i","d","e","o","O","n","D","e","m","a","n","d">>],
     [code |-> 83, name |-> <<"E","l","e","c","t","r","o","n","i","c","P","r","o","g","r","a","m","G","u","i","d","e">>],
     [code |-> 84, name |-> <<"T","i","m","e","r","P","r","o","g","r","a","m","m","i","n","g">>],
     [code |-> 85, name |-> <<"I","n","i","t","i","a","l","C","o","n","f","i","g","u","r","a","t","i","o","n">>],
     [code |-> 96, name |-> <<"P","l","a","y","F","u","n","c","t","i","o","n">>],
     [code |-> 97, name |-> <<"P","a","u","s","e","P","l","a","y">>],
     [code |-> 98, name |-> <<"R","e","c","o","r","d","F","u","n","c","t","i","o","n">>],
     [code |-> 99, name |-> <<"P","a","u","s","e","R","e","c","o","r","d","F","u","n","c","t","i","o","n">>],
     [code |-> 100, name |-> <<"S","t","o","p","F","u","n","c","t","i","o","n">>],
     [code |-> 101, name |-> <<"M","u","t","e">>],
     [code |-> 102, name |-> <<"R","e","s","t","o","r","e","V","o","l","u","m","e">>],
     [code |-> 103, name |-> <<"T","u","n","e">>],
     [code |-> 104, name |-> <<"S","e","l","e","c","t","M","e","d","i","a">>],
     [code |-> 105, name |-> <<"S","e","l","e","c","t","A","v","I","n","p","u","t">>],
     [code |-> 106, name |-> <<"S","e","l","e","c","t","A","u","d","i","o","I","n","p","u","t">>],
     [code |-> 107, name |-> <<"P","o","w","e","r","T","o","g","g","l","e">>],
     [code |-> 108, name |-> <<"P","o","w","e","r","O","f","f">>],
     [code |-> 109, name |-> <<"P","o","w","e","r","O","n">>],
     [code |-> 113, name |-> <<"B","l","u","e">>],
     [code |-> 114, name |-> <<"R","e","d">>],
     [code |-> 115, name |-> <<"G","r","e","e","n">>],
     [code |-> 116, name |-> <<"Y","e","l","l","o","w">>],
     [code |-> 117, name |-> <<"F","5">>],
     [code |-> 118, name |-> <<"D","a","t","a">>],
     [code |-> 145, name |-> <<"A","n","R","e","t","u","r","n">>],
     [code |-> 150, name |-> <<"M","a","x">>] >>

opcodes ==
  (130 :> "ACTIVE_SOURCE") @@
  (4 :> "IMAGE_VIEW_ON") @@
  (13 :> "TEXT_VIEW_ON") @@
  (157 :> "INACTIVE_SOURCE") @@
  (133 :> "REQUEST_ACTIVE_SOURCE") @@
  (128 :> "ROUTING_CHANGE") @@
  (129 :> "ROUTING_INFORMATION") @@
  (134 :> "SET_STREAM_PATH") @@
  (54 :> "STANDBY") @@
  (11 :> "RECORD_OFF") @@
  (9 :> "RECORD_ON") @@
  (10 :> "RECORD_STATUS") @@
  (15 :> "RECORD_TV_SCREEN") @@
  (51 :> "CLEAR_ANALOGUE_TIMER") @@
  (153 :> "CLEAR_DIGITAL_TIMER") @@
  (161 :> "CLEAR_EXTERNAL_TIMER") @@
  (52 :> "SET_ANALOGUE_TIMER") @@
  (151 :> "SET_DIGITAL_TIMER") @@
  (162 :> "SET_EXTERNAL_TIMER") @@
  (103 :> "SET_TIMER_PROGRAM_TITLE") @@
  (67 :> "TIMER_CLEARED_STATUS") @@
  (53 :> "TIMER_STATUS") @@
  (158 :> "CEC_VERSION") @@
  (159 :> "GET_CEC_VERSION") @@
  (131 :> "GIVE_PHYSICAL_ADDRESS") @@
  (145 :> "GET_MENU_LANGUAGE") @@
  (132 :> "REPORT_PHYSICAL_ADDRESS") @@
  (50 :> "SET_MENU_LANGUAGE") @@
  (66 :> "DECK_CONTROL") @@
  (27 :> "DECK_STATUS") @@
  (26 :> "GIVE_DECK_STATUS") @@
  (65 :> "PLAY") @@
  (8 :> "GIVE_TUNER_DEVICE_STATUS") @@
  (146 :> "SELECT_ANALOGUE_SERVICE") @@
  (147 :> "SELECT_DIGITAL_SERVICE") @@
  (7 :> "TUNER_DEVICE_STATUS") @@
  (6 :> "TUNER_STEP_DECREMENT") @@
  (5 :> "TUNER_STEP_INCREMENT") @@
  (135 :> "DEVICE_VENDOR_ID") @@
  (140 :> "GIVE_DEVICE_VENDOR_ID") @@
  (137 :> "VENDOR_COMMAND") @@
  (160 :> "VENDOR_COMMAND_WITH_ID") @@
  (138 :> "VENDOR_REMOTE_BUTTON_DOWN") @@
  (139 :> "VENDOR_REMOTE_BUTTON_UP") @@
  (100 :> "SET_OSD_STRING") @@
  (70 :> "GIVE_OSD_NAME") @@
  (71 :> "SET_OSD_NAME") @@
  (141 :> "MENU_REQUEST") @@
  (142 :> "MENU_STATUS") @@
  (68 :> "USER_CONTROL_PRESSED") @@
  (69 :> "USER_CONTROL_RELEASE") @@
  (143 :> "GIVE_DEVICE_POWER_STATUS") @@
  (144 :> "REPORT_POWER_STATUS") @@
  (0 :> "FEATURE_ABORT") @@
  (255 :> "ABORT") @@
  (113 :> "GIVE_AUDIO_STATUS") @@
  (125 :> "GIVE_SYSTEM_AUDIO_MODE_STATUS") @@
  (122 :> "REPORT_AUDIO_STATUS") @@
  (114 :> "SET_SYSTEM_AUDIO_MODE") @@
  (112 :> "SYSTEM_AUDIO_MODE_REQUEST") @@
  (126 :> "SYSTEM_AUDIO_MODE_STATUS") @@
  (154 :> "SET_AUDIO_RATE") @@
  (192 :> "START_ARC") @@
  (193 :> "REPORT_ARC_STARTED") @@
  (194 :> "REPORT_ARC_ENDED") @@
  (195 :> "REQUEST_ARC_START") @@
  (196 :> "REQUEST_ARC_END") @@
  (197 :> "END_ARC") @@
  (248 :> "CDC") @@
  (253 :> "NONE")

vendorList ==
  (57 :> "Toshiba") @@
  (240 :> "Samsung") @@
  (1485 :> "Denon") @@
  (1656 :> "Marantz") @@
  (2434 :> "Loewe") @@
  (2480 :> "Onkyo") @@
  (3256 :> "Medion") @@
  (3303 :> "Toshiba") @@
  (5506 :> "Pulse Eight") @@
  (8391 :> "Akai") @@
  (9319 :> "Aoc") @@
  (32837 :> "Panasonic") @@
  (36926 :> "Philips") @@
  (36947 :> "Daewoo") @@
  (41182 :> "Yamaha") @@
  (53461 :> "Grundig") @@
  (57398 :> "Pioneer") @@
  (57489 :> "LG") @@
  (524319 :> "Sharp") @@
  (524358 :> "Sony") @@
  (1622150 :> "Broadcom") @@
  (7042157 :> "Vizio") @@
  (8414697 :> "Benq") @@
  (10249310 :> "Harman Kardon")

----------------------------------------------------------------------------
(* Results of a call: a returned value, or a run-time panic.               *)

Ret(v) == [panic |-> FALSE, val |-> v]
Panic == [panic |-> TRUE]

(* strings.ToLower and strings.Map on the ASCII range.                     *)

upperLetters == <<"A","B","C","D","E","F","G","H","I","J","K","L","M",
                  "N","O","P","Q","R","S","T","U","V","W","X","Y","Z">>
lowerLetters == <<"a","b","c","d","e","f","g","h","i","j","k","l","m",
                  "n","o","p","q","r","s","t","u","v","w","x","y","z">>

\* The lower-case letter of every upper-case letter.
lowerOf ==
  [r \in {upperLetters[i] : i \in DOMAIN upperLetters} |->
     lowerLetters[CHOOSE i \in DOMAIN upperLetters : upperLetters[i] = r]]

ToLowerRune(r) == IF r \in DOMAIN lowerOf THEN lowerOf[r] ELSE r

ToLower(s) == [i \in 1..Len(s) |-> ToLowerRune(s[i])]

separators == {":", "-", "_", " "}

IsNotSeparator(r) == r \notin separators

\* removeSeparators - remove separators (":", "-", " ", "_")
removeSeparators(in) == SelectSeq(in, IsNotSeparator)

\* strings.ToLower(value) of every entry of keyList and of logicalNames.
lowerKeyNames == [i \in DOMAIN keyList |-> ToLower(keyList[i].name)]
lowerLogicalNames == [i \in DOMAIN logicalNames |-> ToLower(logicalNames[i])]

\* GetKeyCodeByName: the codes the call can return.  The loop ranges over a
\* Go map, whose iteration order is unspecified: the first entry met whose
\* lower-cased name equals the normalised input is returned, so any matching
\* entry can be the one returned.
GetKeyCodeByName(name) ==
  LET n == ToLower(removeSeparators(name))
      hits == {i \in DOMAIN keyList : lowerKeyNames[i] = n}
  IN IF hits = {} THEN {-1} ELSE {keyList[i].code : i \in hits}

unregistered == <<"u","n","r","e","g","i","s","t","e","r","e","d">>

\* A bug variant: every trailing digit is taken for the disambiguator.
GetLogicalAddressByNameAnyDigit(name) ==
  LET n0 == removeSeparators(name)
      l == Len(n0)
  IN IF l = 0 THEN Panic
     ELSE LET n1 == IF n0[l] \in {"1","2","3","4"} THEN SubSeq(n0, 1, l - 1) ELSE n0
              n == ToLower(n1)
              hits == {i \in 0..15 : lowerLogicalNames[i + 1] = n}
          IN IF hits # {} THEN Ret(CHOOSE i \in hits : \A j \in hits : i <= j)
             ELSE IF n = unregistered THEN Ret(15) ELSE Ret(-1)

\* GetLogicalAddressByName.  name[l-1] with l = 0 is an index out of range:
\* the call panics.  The loop returns the first (smallest) matching index.
GetLogicalAddressByName(name) ==
  LET n0 == removeSeparators(name)
      l == Len(n0)
  IN IF l = 0 THEN Panic
     ELSE LET n1 == IF n0[l] = "1" THEN SubSeq(n0, 1, l - 1) ELSE n0
              n == ToLower(n1)
              hits == {i \in 0..15 : lowerLogicalNames[i + 1] = n}
          IN IF hits # {} THEN Ret(CHOOSE i \in hits : \A j \in hits : i <= j)
             ELSE IF n = unregistered THEN Ret(15) ELSE Ret(-1)

\* GetLogicalNameByAddress: a slice index, which panics out of range.
GetLogicalNameByAddress(addr) ==
  IF addr \in 0..(Len(logicalNames) - 1) THEN Ret(logicalNames[addr + 1]) ELSE Panic

\* GetVendorByID: a map lookup, "" for an absent key.
GetVendorByID(id) == IF id \in DOMAIN vendorList THEN vendorList[id] ELSE ""

\* opcodes[op]: a map lookup, "" for an absent key.
OperationName(op) == IF op \in DOMAIN opcodes THEN opcodes[op] ELSE ""

----------------------------------------------------------------------------
(* Open (cec.go, lines 146-170).  The three driver calls are cecInit,      *)
(* getAdapter and openAdapter; whether each succeeds is the driver's.      *)

DriverCall(fn, ok) == [fn |-> fn, ok |-> ok]

\* A bug variant: a failure of getAdapter is logged but not returned.
OpenIgnoringAdapterError(initOk, adapterOk, openOk) ==
  IF ~initOk
  THEN [calls |-> <<DriverCall("cecInit", FALSE)>>, conn |-> "nil", err |-> TRUE]
  ELSE IF ~openOk
  THEN [calls |-> <<DriverCall("cecInit", TRUE), DriverCall("getAdapter", adapterOk),
                    DriverCall("openAdapter", FALSE)>>,
        conn |-> "nil", err |-> TRUE]
  ELSE [calls |-> <<DriverCall("cecInit", TRUE), DriverCall("getAdapter", adapterOk),
                    DriverCall("openAdapter", TRUE)>>,
        conn |-> "open", err |-> FALSE]

Open(initOk, adapterOk, openOk) ==
  IF ~initOk
  THEN [calls |-> <<DriverCall("cecInit", FALSE)>>, conn |-> "nil", err |-> TRUE]
  ELSE IF ~adapterOk
  THEN [calls |-> <<DriverCall("cecInit", TRUE), DriverCall("getAdapter", FALSE)>>,
        conn |-> "nil", err |-> TRUE]
  ELSE IF ~openOk
  THEN [calls |-> <<DriverCall("cecInit", TRUE), DriverCall("getAdapter", TRUE),
                    DriverCall("openAdapter", FALSE)>>,
        conn |-> "nil", err |-> TRUE]
  ELSE [calls |-> <<DriverCall("cecInit", TRUE), DriverCall("getAdapter", TRUE),
                    DriverCall("openAdapter", TRUE)>>,
        conn |-> "open", err |-> FALSE]

NoOpenCall == [calls |-> <<>>, conn |-> "nil", err |-> FALSE]

\* The application calls Open until it holds a Connection.
CallOpen ==
  /\ conn = "nil"
  /\ \E initOk \in BOOLEAN, adapterOk \in BOOLEAN, openOk \in BOOLEAN :
       /\ openCall' = Open(initOk, adapterOk, openOk)
       /\ conn' = openCall'.conn
  /\ UNCHANGED <<keyCall, listVars, dispatchVars, nameVars>>

----------------------------------------------------------------------------
(* Connection.Key (cec.go, lines 175-207).                                 *)

hexDigits == <<"0","1","2","3","4","5","6","7","8","9","a","b","c","d","e","f">>

\* The value of a hexadecimal digit of either case, -1 for any other rune.
hexValueOf ==
  [r \in {hexDigits[i] : i \in DOMAIN hexDigits} |->
     (CHOOSE i \in DOMAIN hexDigits : hexDigits[i] = r) - 1]

HexValue(r) ==
  LET lr == ToLowerRune(r)
  IN IF lr \in DOMAIN hexValueOf THEN hexValueOf[lr] ELSE -1

\* hex.DecodeString: the bytes of an even-length string of hex digits, an
\* error for anything else.
DecodeString(s) ==
  IF Len(s) % 2 # 0 \/ \E i \in DOMAIN s : HexValue(s[i]) < 0
  THEN [err |-> TRUE]
  ELSE [err |-> FALSE,
        bytes |-> [i \in 1..(Len(s) \div 2) |->
                     16 * HexValue(s[2 * i - 1]) + HexValue(s[2 * i])]]

\* The type switch of Key (lines 176-195): what the key resolves to.  key[:2]
\* panics with slice bounds out of range on a string shorter than two.
KeyResolve(key) ==
  IF key.type = "string"
  THEN IF Len(key.s) < 2
       THEN {[kind |-> "panic"]}
       ELSE IF SubSeq(key.s, 1, 2) = <<"0","x">> /\ Len(key.s) = 4
       THEN LET keybytes == DecodeString(SubSeq(key.s, 3, Len(key.s)))
            IN IF keybytes.err
               THEN {[kind |-> "return"]}
               ELSE {[kind |-> "keycode", keycode |-> keybytes.bytes[1]]}
       ELSE {[kind |-> "keycode", keycode |-> c] : c \in GetKeyCodeByName(key.s)}
  ELSE IF key.type = "int"
  THEN {[kind |-> "keycode", keycode |-> key.i]}
  ELSE {[kind |-> "return"]}

PressCall(address, keycode, ok) ==
  [fn |-> "KeyPress", address |-> address, keycode |-> keycode, ok |-> ok]
ReleaseCall(address, ok) ==
  [fn |-> "KeyRelease", address |-> address, keycode |-> 0, ok |-> ok]

\* A bug variant: a failed KeyPress is logged but the release is still sent.
KeySendAlwaysRelease(address, keycode, pressOk, releaseOk) ==
  <<PressCall(address, keycode, pressOk), ReleaseCall(address, releaseOk)>>

\* The driver calls of Key once the key code is known (lines 196-206).
KeySend(address, keycode, pressOk, releaseOk) ==
  IF ~pressOk
  THEN <<PressCall(address, keycode, FALSE)>>
  ELSE <<PressCall(address, keycode, TRUE), ReleaseCall(address, releaseOk)>>

\* One call of Key: the driver calls made and how the call ended.
Key(address, key, resolved, pressOk, releaseOk) ==
  IF resolved.kind = "panic" THEN [calls |-> <<>>, outcome |-> "panic"]
  ELSE IF resolved.kind = "return" THEN [calls |-> <<>>, outcome |-> "returned"]
  ELSE [calls |-> KeySend(address, resolved.keycode, pressOk, releaseOk),
        outcome |-> "returned"]

StringKey(s) == [type |-> "string", s |-> s, i |-> 0]
IntKey(i) == [type |-> "int", s |-> <<>>, i |-> i]
OtherKey == [type |-> "other", s |-> <<>>, i |-> 0]

\* The keys given to Key: every name of the key table, "0x" followed by two
\* runes of a small alphabet, strings that are neither, ints, and a value of
\* another type.
HexRunes == {"0", "4", "f", "F", "g"}
KeyInputs ==
     {StringKey(keyList[i].name) : i \in DOMAIN keyList}
  \cup {StringKey(<<"0", "x", a, b>>) : a \in HexRunes, b \in HexRunes}
  \cup {StringKey(s) : s \in {<<>>, <<"x">>, <<"0","x">>, <<"0","x","4">>,
                              <<"0","X","4","1">>, <<"0","x","4","1","1">>,
                              <<"v","o","l","u","m","e","-","u","p">>,
                              <<"M","U","T","E">>, <<"N","o","K","e","y">>}}
  \cup {IntKey(i) : i \in {-1, 0, 65, 999}}
  \cup {OtherKey}

KeyAddresses == {0, 5}

NoKeyCall ==
  [address |-> 0, key |-> OtherKey, pressOk |-> TRUE, releaseOk |-> TRUE,
   calls |-> <<>>, outcome |-> "none"]

CallKey ==
  /\ conn = "open"
  /\ \E key \in KeyInputs :
       \E resolved \in KeyResolve(key) :
         \E address \in KeyAddresses, pressOk \in BOOLEAN, releaseOk \in BOOLEAN :
         LET k == Key(address, key, resolved, pressOk, releaseOk)
         IN keyCall' = [address |-> address, key |-> key, pressOk |-> pressOk,
                        releaseOk |-> releaseOk, calls |-> k.calls,
                        outcome |-> k.outcome]
  /\ UNCHANGED <<conn, openCall, listVars, dispatchVars, nameVars>>

----------------------------------------------------------------------------
(* Connection.List (cec.go, lines 226-246).  The per-address queries are   *)
(* answered by the driver from the devices on the bus (the variable bus).  *)

Addresses == 0..(Len(logicalNames) - 1)

VendorIDs == <<57, 240, 32837, 524358, 1193046>>

\* Two buses whose devices answer every query differently per address.
BusConfig(n) ==
  [a \in Addresses |->
     [phys |-> <<"phys", n, a>>,
      osd |-> <<"osd", n, a>>,
      power |-> IF (a + n) % 2 = 0 THEN "on" ELSE "standby",
      activeSource |-> (a = n),
      vendorID |-> VendorIDs[((a + n) % Len(VendorIDs)) + 1]]]

BusConfigs == {BusConfig(0), BusConfig(1)}

Query(fn, address) == [fn |-> fn, address |-> address]

\* A bug variant: the OSD name is asked of the TV whatever the address.
ListDeviceOSDOfTV(address) ==
  [LogicalAddress |-> address,
   PhysicalAddress |-> bus[address].phys,
   OSDName |-> bus[0].osd,
   PowerStatus |-> bus[address].power,
   ActiveSource |-> bus[address].activeSource,
   Vendor |-> GetVendorByID(bus[address].vendorID)]

\* The Device built for an active address (lines 233-240).
ListDevice(address) ==
  [LogicalAddress |-> address,
   PhysicalAddress |-> bus[address].phys,
   OSDName |-> bus[address].osd,
   PowerStatus |-> bus[address].power,
   ActiveSource |-> bus[address].activeSource,
   Vendor |-> GetVendorByID(bus[address].vendorID)]

\* The queries made for an active address, in the order of lines 236-240.
ListQueries(address) ==
  <<Query("GetDevicePhysicalAddress", address), Query("GetDeviceOSDName", address),
    Query("GetDevicePowerStatus", address), Query("IsActiveSource", address),
    Query("GetDeviceVendorID", address)>>

\* The loop of List over the bitmap, from address on (lines 231-244).
RECURSIVE ListFrom(_, _, _)
ListFrom(address, activeDevices, acc) ==
  IF address \notin Addresses THEN acc
  ELSE IF activeDevices[address]
  THEN ListFrom(address + 1, activeDevices,
                [devices |-> (logicalNames[address + 1] :> ListDevice(address))
                               @@ acc.devices,
                 queries |-> acc.queries \o ListQueries(address)])
  ELSE ListFrom(address + 1, activeDevices, acc)

List(activeDevices) ==
  ListFrom(0, activeDevices,
           [devices |-> <<>>, queries |-> <<Query("GetActiveDevices", -1)>>])

\* The sets of at most n addresses.
RECURSIVE AddressSets(_)
AddressSets(n) ==
  IF n = 0 THEN {{}}
  ELSE LET smaller == AddressSets(n - 1)
       IN smaller \cup {S \cup {a} : S \in smaller, a \in Addresses}

\* The bitmaps GetActiveDevices can return.
ActiveBitmaps == {[a \in Addresses |-> a \in S] : S \in AddressSets(MaxActive)}

NoListCall ==
  [done |-> FALSE, active |-> [a \in Addresses |-> FALSE],
   devices |-> <<>>, queries |-> <<>>]

CallList ==
  /\ conn = "open"
  /\ \E activeDevices \in ActiveBitmaps :
       LET l == List(activeDevices)
       IN listCall' = [done |-> TRUE, active |-> activeDevices,
                       devices |-> l.devices, queries |-> l.queries]
  /\ UNCHANGED <<connVars, bus, dispatchVars, nameVars>>

----------------------------------------------------------------------------
(* The dispatch of the driver's callbacks (callbacks.go, lines 20-48, and  *)
(* cec.go, lines 209-223).  A channel is nil, or holds at most cap values; *)
(* a send blocks while the buffer is full and no receiver is waiting.      *)

NilChan == [nil |-> TRUE, cap |-> 0, buf |-> <<>>]
MakeChan(cap) == [nil |-> FALSE, cap |-> cap, buf |-> <<>>]

CanSend(ch) == ~ch.nil /\ Len(ch.buf) < ch.cap
ChanSend(ch, v) == [ch EXCEPT !.buf = Append(@, v)]

CbIdle == [pc |-> "idle", kind |-> "none", ev |-> 0]
CbSend(kind, ev) == [pc |-> "send", kind |-> kind, ev |-> ev]

\* The raw key codes and frames the driver delivers.
RawKeys == {0, 65}
RawFrames ==
  {[initiator |-> 0, destination |-> 4, ack |-> 1, eom |-> 1, opcode |-> op,
    opcode_set |-> 1, transmit_timeout |-> 1000] : op \in {130, 1}}

\* The Command built by the command-received callback (callbacks.go, 34-44).
NewCommand(msg) ==
  [initiator |-> msg.initiator, destination |-> msg.destination,
   ack |-> msg.ack, eom |-> msg.eom, opcode |-> msg.opcode,
   opcode_set |-> msg.opcode_set, transmit_timeout |-> msg.transmit_timeout,
   Operation |-> OperationName(msg.opcode)]

\* A bug variant: the nil check is left out.
ConnectionKeyPressedUnchecked(k) == CbSend("key", k)

\* Connection.keyPressed (cec.go, 217-223): where the callback goes next.
ConnectionKeyPressed(k) ==
  IF ~KeyPresses.nil THEN CbSend("key", k) ELSE CbIdle

\* Connection.commandReceived (cec.go, 209-215).
ConnectionCommandReceived(msg) ==
  IF ~Commands.nil THEN CbSend("cmd", msg) ELSE CbIdle

Arrival(kind, ev, registered) == [kind |-> kind, ev |-> ev, registered |-> registered]

\* The application registers a queue by assigning a channel to the field.
RegisterKeyPresses ==
  /\ conn = "open"
  /\ KeyPresses.nil
  /\ \E cap \in 0..MaxCap : KeyPresses' = MakeChan(cap)
  /\ UNCHANGED <<connVars, listVars, Commands, cb, cbRet, arrived, sentKey, sentCmd, nameVars>>

RegisterCommands ==
  /\ conn = "open"
  /\ Commands.nil
  /\ \E cap \in 0..MaxCap : Commands' = MakeChan(cap)
  /\ UNCHANGED <<connVars, listVars, KeyPresses, cb, cbRet, arrived, sentKey, sentCmd, nameVars>>

\* The key-pressed callback up to the channel send: it returns 0 at once
\* when no channel is registered.
keyPressed ==
  /\ conn = "open"
  /\ cb.pc = "idle"
  /\ Len(arrived) < MaxEvents
  /\ \E k \in RawKeys :
       /\ arrived' = Append(arrived, Arrival("key", k, ~KeyPresses.nil))
       /\ cb' = ConnectionKeyPressed(k)
  /\ cbRet' = IF cb'.pc = "idle" THEN Append(cbRet, 0) ELSE cbRet
  /\ UNCHANGED <<connVars, listVars, KeyPresses, Commands, sentKey, sentCmd, nameVars>>

\* The command-received callback up to the channel send.
commandReceived ==
  /\ conn = "open"
  /\ cb.pc = "idle"
  /\ Len(arrived) < MaxEvents
  /\ \E msg \in RawFrames :
       /\ arrived' = Append(arrived, Arrival("cmd", NewCommand(msg), ~Commands.nil))
       /\ cb' = ConnectionCommandReceived(NewCommand(msg))
  /\ cbRet' = IF cb'.pc = "idle" THEN Append(cbRet, 0) ELSE cbRet
  /\ UNCHANGED <<connVars, listVars, KeyPresses, Commands, sentKey, sentCmd, nameVars>>

\* c.KeyPresses <- k completes into the buffer, and the callback returns 0.
keyPressedSend ==
  /\ cb.pc = "send" /\ cb.kind = "key"
  /\ CanSend(KeyPresses)
  /\ KeyPresses' = ChanSend(KeyPresses, cb.ev)
  /\ sentKey' = Append(sentKey, cb.ev)
  /\ cb' = CbIdle
  /\ cbRet' = Append(cbRet, 0)
  /\ UNCHANGED <<connVars, listVars, Commands, arrived, sentCmd, nameVars>>

\* c.Commands <- msg completes into the buffer, and the callback returns 0.
commandReceivedSend ==
  /\ cb.pc = "send" /\ cb.kind = "cmd"
  /\ CanSend(Commands)
  /\ Commands' = ChanSend(Commands, cb.ev)
  /\ sentCmd' = Append(sentCmd, cb.ev)
  /\ cb' = CbIdle
  /\ cbRet' = Append(cbRet, 0)
  /\ UNCHANGED <<connVars, listVars, KeyPresses, arrived, sentKey, nameVars>>

\* The application receives from KeyPresses: the head of the buffer, or,
\* the buffer being empty, the value of the blocked send, which completes.
ReceiveKeyPress ==
  /\ ~KeyPresses.nil
  /\ IF KeyPresses.buf # <<>>
     THEN /\ KeyPresses' = [KeyPresses EXCEPT !.buf = Tail(@)]
          /\ UNCHANGED <<cb, cbRet, sentKey>>
     ELSE /\ cb.pc = "send" /\ cb.kind = "key"
          /\ sentKey' = Append(sentKey, cb.ev)
          /\ cb' = CbIdle
          /\ cbRet' = Append(cbRet, 0)
          /\ UNCHANGED KeyPresses
  /\ UNCHANGED <<connVars, listVars, Commands, arrived, sentCmd, nameVars>>

ReceiveCommand ==
  /\ ~Commands.nil
  /\ IF Commands.buf # <<>>
     THEN /\ Commands' = [Commands EXCEPT !.buf = Tail(@)]
          /\ UNCHANGED <<cb, cbRet, sentCmd>>
     ELSE /\ cb.pc = "send" /\ cb.kind = "cmd"
          /\ sentCmd' = Append(sentCmd, cb.ev)
          /\ cb' = CbIdle
          /\ cbRet' = Append(cbRet, 0)
          /\ UNCHANGED Commands
  /\ UNCHANGED <<connVars, listVars, KeyPresses, arrived, sentKey, nameVars>>

----------------------------------------------------------------------------
(* The resolvers applied to an input: a name, or an address whose name is  *)
(* looked up first and then resolved back.                                 *)

upperOf ==
  [r \in {lowerLetters[i] : i \in DOMAIN lowerLetters} |->
     upperLetters[CHOOSE i \in DOMAIN lowerLetters : lowerLetters[i] = r]]

ToUpperRune(r) == IF r \in DOMAIN upperOf THEN upperOf[r] ELSE r

ToUpper(s) == [i \in 1..Len(s) |-> ToUpperRune(s[i])]

InsertAt(s, i, r) == SubSeq(s, 1, i) \o <<r>> \o SubSeq(s, i + 1, Len(s))

CaseVariants(s) == {s, ToUpper(s), ToLower(s)}

SepVariants(s) ==
  {s} \cup {InsertAt(s, i, r) : i \in {j \in 0..MaxSepPos : j <= Len(s)},
                                r \in {"_", " "}}

TailVariants(s) == {s, s \o <<"1">>}

Variants(s) ==
  UNION {TailVariants(t) : t \in UNION {SepVariants(c) : c \in CaseVariants(s)}}

BaseNames ==
       {logicalNames[i] : i \in DOMAIN logicalNames}
  \cup {keyList[i].name : i \in DOMAIN keyList}
  \cup {unregistered}

SmallAlphabet == {"T", "v", "1", "-"}

\* Every string of at most n runes of the small alphabet.
RECURSIVE Strings(_)
Strings(n) ==
  IF n = 0 THEN {<<>>}
  ELSE LET shorter == Strings(n - 1)
       IN shorter \cup {Append(s, r) : s \in {t \in shorter : Len(t) = n - 1},
                                       r \in SmallAlphabet}

NameInputs == UNION {Variants(b) : b \in BaseNames} \cup Strings(MaxLen)

AddressInputs == -1..Len(logicalNames)

ResolverCall(fn, res) == [fn |-> fn, res |-> res]

CallGetLogicalNameByAddress ==
  /\ nameFrom = "pending"
  /\ LET r == GetLogicalNameByAddress(argAddr)
     IN IF r.panic
        THEN nameFrom' = "panic" /\ UNCHANGED argName
        ELSE nameFrom' = "lookup" /\ argName' = r.val
  /\ UNCHANGED <<connVars, listVars, dispatchVars, argAddr, calls>>

CallGetLogicalAddressByName ==
  /\ nameFrom \in {"input", "lookup"}
  /\ Len(calls) < MaxCalls
  /\ calls' = Append(calls, ResolverCall("GetLogicalAddressByName",
                                         GetLogicalAddressByName(argName)))
  /\ UNCHANGED <<connVars, listVars, dispatchVars, argAddr, argName, nameFrom>>

CallGetKeyCodeByName ==
  /\ nameFrom \in {"input", "lookup"}
  /\ Len(calls) < MaxCalls
  /\ \E code \in GetKeyCodeByName(argName) :
       calls' = Append(calls, ResolverCall("GetKeyCodeByName", Ret(code)))
  /\ UNCHANGED <<connVars, listVars, dispatchVars, argAddr, argName, nameFrom>>

----------------------------------------------------------------------------
(* Initial states and specifications.                                      *)

ConnUnopened == conn = "nil" /\ openCall = NoOpenCall /\ keyCall = NoKeyCall
ConnOpened ==
  conn = "open" /\ openCall = Open(TRUE, TRUE, TRUE) /\ keyCall = NoKeyCall
NoDispatch ==
  /\ KeyPresses = NilChan /\ Commands = NilChan
  /\ cb = CbIdle /\ cbRet = <<>>
  /\ arrived = <<>> /\ sentKey = <<>> /\ sentCmd = <<>>
NoResolverInput ==
  argAddr = 0 /\ argName = <<>> /\ nameFrom = "none" /\ calls = <<>>

\* The application before Open: Open, then Key on the open Connection.
Init ==
  /\ ConnUnopened
  /\ bus = BusConfig(0) /\ listCall = NoListCall
  /\ NoDispatch /\ NoResolverInput

Next == CallOpen \/ CallKey

Spec == Init /\ [][Next]_vars

\* List on an open Connection, on either bus.
InitList ==
  /\ ConnOpened
  /\ bus \in BusConfigs /\ listCall = NoListCall
  /\ NoDispatch /\ NoResolverInput

NextList == CallList

SpecList == InitList /\ [][NextList]_vars

\* The driver's callbacks on an open Connection, and the application
\* registering and draining the channels.
InitDispatch ==
  /\ ConnOpened
  /\ bus = BusConfig(0) /\ listCall = NoListCall
  /\ NoDispatch /\ NoResolverInput

NextDispatch ==
  \/ RegisterKeyPresses \/ RegisterCommands
  \/ keyPressed \/ commandReceived
  \/ keyPressedSend \/ commandReceivedSend
  \/ ReceiveKeyPress \/ ReceiveCommand

SpecDispatch == InitDispatch /\ [][NextDispatch]_vars

\* The driver's thread runs: a send that can complete does complete.  The
\* application is under no obligation to register or to receive.
FairDispatch ==
  /\ SpecDispatch
  /\ WF_vars(keyPressedSend)
  /\ WF_vars(commandReceivedSend)

\* The resolvers on one input.
InitNames ==
  /\ ConnUnopened
  /\ bus = BusConfig(0) /\ listCall = NoListCall
  /\ NoDispatch
  /\ calls = <<>>
  /\ \/ argAddr = 0 /\ argName \in NameInputs /\ nameFrom = "input"
     \/ argAddr \in AddressInputs /\ argName = <<>> /\ nameFrom = "pending"

NextNames ==
  \/ CallGetLogicalNameByAddress
  \/ CallGetLogicalAddressByName
  \/ CallGetKeyCodeByName

SpecNames == InitNames /\ [][NextNames]_vars

----------------------------------------------------------------------------
(* Properties.                                                             *)

\* What the specification calls a valid and an invalid key specification.
WellFormedHexKey(s) ==
  /\ Len(s) = 4
  /\ SubSeq(s, 1, 2) = <<"0","x">>
  /\ HexValue(s[3]) >= 0 /\ HexValue(s[4]) >= 0

KnownKeyName(s) ==
  \E i \in DOMAIN keyList : lowerKeyNames[i] = ToLower(removeSeparators(s))

ValidKey(key) ==
  \/ key.type = "int"
  \/ key.type = "string" /\ (WellFormedHexKey(key.s) \/ KnownKeyName(key.s))

InvalidKey(key) ==
  \/ key.type = "other"
  \/ key.type = "string" /\ ~WellFormedHexKey(key.s) /\ ~KnownKeyName(key.s)

\* The codes a valid key stands for.
ResolvedCodes(key) ==
  IF key.type = "int" THEN {key.i}
  ELSE IF WellFormedHexKey(key.s)
  THEN {16 * HexValue(key.s[3]) + HexValue(key.s[4])}
  ELSE {keyList[i].code :
          i \in {j \in DOMAIN keyList :
                   lowerKeyNames[j] = ToLower(removeSeparators(key.s))}}

\* C1: Key called with an invalid key specification makes no driver call
\* (neither KeyPress nor KeyRelease) and returns normally.
C1_InvalidKeyNoTraffic ==
  (keyCall.outcome # "none" /\ InvalidKey(keyCall.key))
    => (keyCall.calls = <<>> /\ keyCall.outcome = "returned")

\* C2: with a valid key specification and a driver that accepts both calls,
\* one call of Key makes exactly one KeyPress(address, code) with the
\* resolved code and then exactly one KeyRelease(address); and no call of
\* Key makes a KeyRelease that no KeyPress of the same call precedes.
C2_OnePressThenOneRelease ==
  keyCall.outcome # "none" =>
    /\ (ValidKey(keyCall.key) /\ keyCall.pressOk /\ keyCall.releaseOk)
         => /\ Len(keyCall.calls) = 2
            /\ keyCall.calls[1].fn = "KeyPress"
            /\ keyCall.calls[1].address = keyCall.address
            /\ keyCall.calls[1].keycode \in ResolvedCodes(keyCall.key)
            /\ keyCall.calls[2].fn = "KeyRelease"
            /\ keyCall.calls[2].address = keyCall.address
    /\ \A i \in DOMAIN keyCall.calls :
         keyCall.calls[i].fn = "KeyRelease"
           => \E j \in 1..(i - 1) : keyCall.calls[j].fn = "KeyPress"

\* C3: the dispatch inside a driver callback always returns: a callback
\* that has reached its channel send eventually completes, whatever the
\* capacity of the channel and whether or not the application receives.
C3_CallbackReturns == (cb.pc = "send") ~> (cb.pc = "idle")

\* The values of the callbacks of one kind that found their channel
\* registered, in the order the callbacks arrived.
IsRegisteredKey(e) == e.kind = "key" /\ e.registered
IsRegisteredCmd(e) == e.kind = "cmd" /\ e.registered
Values(s) == [i \in 1..Len(s) |-> s[i].ev]
RegisteredArrivals(kind) ==
  IF kind = "key" THEN Values(SelectSeq(arrived, IsRegisteredKey))
  ELSE Values(SelectSeq(arrived, IsRegisteredCmd))

\* sent holds the registered arrivals of the kind, in order, but for the one
\* whose callback is still inside its send.
DeliveredInOrder(kind, sent) ==
  LET reg == RegisteredArrivals(kind)
  IN IF cb.pc = "send" /\ cb.kind = kind
     THEN /\ reg # <<>>
          /\ sent = SubSeq(reg, 1, Len(reg) - 1)
          /\ reg[Len(reg)] = cb.ev
     ELSE sent = reg

IsSuffix(s, t) ==
  Len(s) <= Len(t) /\ s = SubSeq(t, Len(t) - Len(s) + 1, Len(t))

\* C4: an event whose channel is registered is sent on that channel and on
\* no other, in the order of arrival; an event whose channel is not
\* registered is dropped: the callback returns 0 at once and no channel
\* holds the event.
C4_EnqueuedInOrderOrDropped ==
  /\ DeliveredInOrder("key", sentKey)
  /\ DeliveredInOrder("cmd", sentCmd)
  /\ IsSuffix(KeyPresses.buf, sentKey)
  /\ IsSuffix(Commands.buf, sentCmd)
  /\ (arrived # <<>> /\ ~arrived[Len(arrived)].registered) => cb.pc = "idle"
  /\ Len(cbRet) = Len(arrived) - (IF cb.pc = "send" THEN 1 ELSE 0)
  /\ \A i \in DOMAIN cbRet : cbRet[i] = 0

C4_Witness ==
  /\ Len(sentKey) >= 2 /\ sentKey[1] # sentKey[2]
  /\ \E i \in DOMAIN arrived : ~arrived[i].registered
  /\ Len(cbRet) = Len(arrived)

OpenSteps == <<"cecInit", "getAdapter", "openAdapter">>

\* C5: Open calls session-init, adapter enumeration and adapter open in
\* that order; a step that fails is the last one made, and then an error and
\* no Connection are returned; a Connection is returned exactly when all
\* three steps were made and succeeded.
C5_OpenStepsInOrder ==
  LET c == openCall.calls
  IN /\ Len(c) <= Len(OpenSteps)
     /\ \A i \in DOMAIN c : c[i].fn = OpenSteps[i]
     /\ \A i \in DOMAIN c :
          ~c[i].ok => (i = Len(c) /\ openCall.conn = "nil" /\ openCall.err)
     /\ (c # <<>> /\ \A i \in DOMAIN c : c[i].ok) => Len(c) = Len(OpenSteps)
     /\ openCall.conn = "open"
          <=> (Len(c) = Len(OpenSteps) /\ \A i \in DOMAIN c : c[i].ok)
     /\ openCall.conn = "open" => ~openCall.err
     /\ conn = openCall.conn

C5_Witness ==
  /\ Len(openCall.calls) = 2
  /\ ~openCall.calls[2].ok
  /\ conn = "nil"

mute == <<"M","u","t","e">>

\* The code of the first entry of the key table that has the name.
FirstKeyCode(name) ==
  LET n == ToLower(removeSeparators(name))
      hits == {i \in DOMAIN keyList : lowerKeyNames[i] = n}
  IN keyList[CHOOSE i \in hits : \A j \in hits : i <= j].code

\* C6: every call of GetKeyCodeByName("Mute") returns the same code, that
\* of the first entry of the key table named "Mute".
C6_MuteIsFirstEntry ==
  (nameFrom = "input" /\ argName = mute)
    => \A i \in DOMAIN calls :
         calls[i].fn = "GetKeyCodeByName"
           => calls[i].res = Ret(FirstKeyCode(mute))

ActiveAddresses == {a \in Addresses : listCall.active[a]}

PerAddressQueries ==
  {"GetDevicePhysicalAddress", "GetDeviceOSDName", "GetDevicePowerStatus",
   "IsActiveSource", "GetDeviceVendorID"}

\* C7: the map List returns has exactly the names of the active addresses
\* as its keys, each entry holding that address and the answers to the five
\* queries for that address; it is empty when no address is active; and no
\* per-address query is made for an inactive address.
C7_ListActiveDevices ==
  listCall.done =>
    /\ DOMAIN listCall.devices = {logicalNames[a + 1] : a \in ActiveAddresses}
    /\ Cardinality(DOMAIN listCall.devices) = Cardinality(ActiveAddresses)
    /\ \A a \in ActiveAddresses :
         LET d == listCall.devices[logicalNames[a + 1]]
         IN /\ d.LogicalAddress = a
            /\ d.PhysicalAddress = bus[a].phys
            /\ d.OSDName = bus[a].osd
            /\ d.PowerStatus = bus[a].power
            /\ d.ActiveSource = bus[a].activeSource
            /\ d.Vendor = GetVendorByID(bus[a].vendorID)
    /\ \A i \in DOMAIN listCall.queries :
         listCall.queries[i].fn \in PerAddressQueries
           => listCall.queries[i].address \in ActiveAddresses
    /\ \A a \in ActiveAddresses, fn \in PerAddressQueries :
         Cardinality({i \in DOMAIN listCall.queries :
                        listCall.queries[i] = Query(fn, a)}) = 1

C7_Witness ==
  /\ listCall.done
  /\ Cardinality(ActiveAddresses) = 2
  /\ 0 \notin ActiveAddresses

\* C8: for every address a in 0..15, GetLogicalAddressByName applied to
\* GetLogicalNameByAddress(a) returns a.
C8_AddressRoundTrip ==
  (argAddr \in 0..15 /\ nameFrom # "input") =>
    /\ nameFrom \in {"pending", "lookup"}
    /\ \A i \in DOMAIN calls :
         calls[i].fn = "GetLogicalAddressByName" => calls[i].res = Ret(argAddr)

C8_Witness ==
  /\ argAddr = 15
  /\ nameFrom = "lookup"
  /\ \E i \in DOMAIN calls : calls[i].fn = "GetLogicalAddressByName"

\* A name as GetLogicalAddressByName is said to compare it: separators
\* removed, one trailing '1' stripped, lower-cased.
ComparedName(name) ==
  LET n0 == removeSeparators(name)
  IN ToLower(IF n0 # <<>> /\ n0[Len(n0)] = "1"
             THEN SubSeq(n0, 1, Len(n0) - 1) ELSE n0)

MatchesNoLogicalName(name) ==
  \A i \in DOMAIN logicalNames : lowerLogicalNames[i] # ComparedName(name)

\* C9: "Recording1" and "Recording" both resolve to 1; "unregistered", in
\* any case and with any separators, resolves to 15; every non-empty name
\* that matches no entry of the table and is not "unregistered" yields -1.
C9_LogicalAddressByName ==
  (nameFrom = "input" /\ argName # <<>>) =>
    \A i \in DOMAIN calls :
      calls[i].fn = "GetLogicalAddressByName" =>
        /\ argName \in {logicalNames[2], logicalNames[2] \o <<"1">>}
             => calls[i].res = Ret(1)
        /\ ToLower(removeSeparators(argName)) = unregistered
             => calls[i].res = Ret(15)
        /\ (MatchesNoLogicalName(argName) /\ ComparedName(argName) # unregistered)
             => calls[i].res = Ret(-1)

\* C10: in Key, a KeyPress the driver fails is the only driver call of the
\* call; a KeyPress the driver accepts is always followed by the KeyRelease.
C10_ReleaseFollowsAcceptedPress ==
  keyCall.calls # <<>> =>
    /\ keyCall.calls[1].fn = "KeyPress"
    /\ keyCall.calls[1].ok = keyCall.pressOk
    /\ ~keyCall.pressOk => Len(keyCall.calls) = 1
    /\ keyCall.pressOk
         => /\ Len(keyCall.calls) = 2
            /\ keyCall.calls[2] = ReleaseCall(keyCall.address, keyCall.releaseOk)

C10_Witness ==
  /\ keyCall.outcome = "returned"
  /\ keyCall.calls # <<>>
  /\ ~keyCall.pressOk
====
